---- MODULE Spec2Model ----
(***************************************************************************)
(* A model of the lexxor tokenizer: the Lexxor engine (lib.rs), the        *)
(* RollingCharBuffer it replays characters through, the InputString        *)
(* source and the standard matchers.                                       *)
(*                                                                         *)
(* Characters are strings; "SP", "LF" and "CR" stand for ' ', '\n' and     *)
(* '\r', and "U+E9" for the two-byte alphabetic character U+00E9.          *)
(* Option<T> is a sequence of length at most one: <<>> is None and <<x>>   *)
(* is Some(x).                                                             *)
(*                                                                         *)
(* An intermediate value that later steps use several times is bound by    *)
(* CHOOSE y \in {F(x) : x \in {e}} : TRUE, which is F(e) with e evaluated  *)
(* once.                                                                   *)
(***************************************************************************)
EXTENDS Integers, Sequences, FiniteSets, TLC

\* ------------------------------------------------------------------------
\* Bounds of the model
\* ------------------------------------------------------------------------

\* Capacity of the replay buffer and of the accumulator (Lexxor<CAP>).
CAP == 4

\* Longest input text when every interleaving of the API calls is explored.
MaxLen == 3

\* Longest input text when only next_token is called.
MaxScanLen == 5

\* Most API calls (next_token, look_ahead, rewind, set_input) in one run.
MaxCalls == 4

\* Longest sequence handed to extend and prepend when the buffer is explored
\* alone.
MaxSeqLen == 2

\* ------------------------------------------------------------------------
\* Characters
\* ------------------------------------------------------------------------

IsAlphabetic(c) == c \in {"a", "b", "U+E9"}

IsNumeric(c) == c \in {"1"}

IsAlphanumeric(c) == IsAlphabetic(c) \/ IsNumeric(c)

IsWhitespace(c) == c \in {"SP", "LF", "CR"}

\* Number of bytes of the UTF-8 encoding of c.
Utf8Len(c) == IF c = "U+E9" THEN 2 ELSE 1

RECURSIVE StrByteLen(_)
\* String::len() of the string made of the characters of s.
StrByteLen(s) ==
    IF s = <<>> THEN 0
    ELSE CHOOSE n \in {Utf8Len(Head(s)) + StrByteLen(t) : t \in {Tail(s)}} : TRUE

\* s[from..] and s[0..to] of a Rust slice (0-based, `to` exclusive).
SliceFrom(s, from) == SubSeq(s, from + 1, Len(s))

SliceTo(s, to) == SubSeq(s, 1, to)

\* ------------------------------------------------------------------------
\* token.rs
\* ------------------------------------------------------------------------

TOKEN_TYPE_INTEGER == 1

TOKEN_TYPE_FLOAT == 2

TOKEN_TYPE_WHITESPACE == 3

TOKEN_TYPE_WORD == 4

TOKEN_TYPE_SYMBOL == 5

TOKEN_TYPE_EXACT == 6

TOKEN_TYPE_KEYWORD == 7

Token(value, token_type, len, line, column, precedence) ==
    [value |-> value, token_type |-> token_type, len |-> len,
     line |-> line, column |-> column, precedence |-> precedence]

\* ------------------------------------------------------------------------
\* rolling_char_buffer.rs
\* ------------------------------------------------------------------------

BufferFullError == "BufferFullError"

BufferEmptyError == "BufferEmptyError"

\* RollingCharBuffer::new
NewBuffer ==
    [full |-> FALSE, cap |-> CAP, start |-> CAP - 1, end |-> CAP - 1,
     buffer |-> [i \in 0..(CAP - 1) |-> "x"]]

BufLen(b) ==
    IF b.full THEN b.cap
    ELSE IF b.end >= b.start THEN b.end - b.start
    ELSE b.cap - (b.start - b.end)

BufIsEmpty(b) == b.start = b.end /\ ~b.full

BufIsFull(b) == b.full

\* A clear that leaves the full flag as it is.
BufClearKeepsFull(b) == [b EXCEPT !.start = b.end]

BufClear(b) == [b EXCEPT !.full = FALSE, !.start = b.end]

\* The operations return [buf, ok, val]: the buffer after the call, whether
\* the call returned Ok, and the Ok value or the error.
BufPush(b, c) ==
    IF b.full THEN [buf |-> b, ok |-> FALSE, val |-> BufferFullError]
    ELSE LET e == (b.end + 1) % b.cap
         IN  [buf |-> [b EXCEPT !.buffer[b.end] = c, !.end = e,
                                !.full = (e = b.start)],
              ok |-> TRUE, val |-> "unit"]

\* A read that leaves the full flag as it is.
BufReadKeepsFull(b) ==
    IF BufIsEmpty(b) THEN [buf |-> b, ok |-> FALSE, val |-> BufferEmptyError]
    ELSE [buf |-> [b EXCEPT !.start = (b.start + 1) % b.cap],
          ok |-> TRUE, val |-> b.buffer[b.start]]

BufRead(b) ==
    IF BufIsEmpty(b) THEN [buf |-> b, ok |-> FALSE, val |-> BufferEmptyError]
    ELSE [buf |-> [b EXCEPT !.start = (b.start + 1) % b.cap, !.full = FALSE],
          ok |-> TRUE, val |-> b.buffer[b.start]]

\* A pop that leaves the full flag as it is.
BufPopKeepsFull(b) ==
    IF BufIsEmpty(b) THEN [buf |-> b, ok |-> FALSE, val |-> BufferEmptyError]
    ELSE LET e == IF b.end = 0 THEN b.cap - 1 ELSE b.end - 1
         IN  [buf |-> [b EXCEPT !.end = e], ok |-> TRUE, val |-> b.buffer[e]]

BufPop(b) ==
    IF BufIsEmpty(b) THEN [buf |-> b, ok |-> FALSE, val |-> BufferEmptyError]
    ELSE LET e == IF b.end = 0 THEN b.cap - 1 ELSE b.end - 1
         IN  [buf |-> [b EXCEPT !.end = e, !.full = FALSE],
              ok |-> TRUE, val |-> b.buffer[e]]

\* A prefix that overwrites the last character of a full buffer.
BufPrefixOverwrites(b, c) ==
    LET s == IF b.start = 0 THEN b.cap - 1 ELSE b.start - 1
    IN  [buf |-> [b EXCEPT !.start = s, !.buffer[s] = c,
                           !.end = IF b.full THEN s ELSE b.end,
                           !.full = b.full \/ (b.end = s)],
         ok |-> TRUE, val |-> "unit"]

BufPrefix(b, c) ==
    IF b.full THEN [buf |-> b, ok |-> FALSE, val |-> BufferFullError]
    ELSE LET s == IF b.start = 0 THEN b.cap - 1 ELSE b.start - 1
         IN  [buf |-> [b EXCEPT !.start = s, !.buffer[s] = c,
                                !.full = (b.end = s)],
              ok |-> TRUE, val |-> "unit"]

RECURSIVE PushAll(_, _)
\* The loop of extend: push every character, stop at the first error.
PushAll(b, cs) ==
    IF cs = <<>> THEN [buf |-> b, ok |-> TRUE, val |-> "unit"]
    ELSE CHOOSE out \in {IF r.ok THEN PushAll(r.buf, t) ELSE r :
                             r \in {BufPush(b, Head(cs))}, t \in {Tail(cs)}} : TRUE

BufExtend(b, charvec) ==
    LET free == b.cap - BufLen(b)
    IN  IF b.full \/ Len(charvec) > free
        THEN [buf |-> b, ok |-> FALSE, val |-> BufferFullError]
        ELSE CHOOSE out \in {IF r.ok THEN [r EXCEPT !.val = r.buf.cap - BufLen(r.buf)]
                                       ELSE r : r \in {PushAll(b, charvec)}} : TRUE

RECURSIVE PrefixAllFwd(_, _)
\* A prepend that prefixes the characters from the first to the last.
PrefixAllFwd(b, cs) ==
    IF cs = <<>> THEN [buf |-> b, ok |-> TRUE, val |-> "unit"]
    ELSE CHOOSE out \in {IF r.ok THEN PrefixAllFwd(r.buf, t) ELSE r :
                             r \in {BufPrefix(b, Head(cs))}, t \in {Tail(cs)}} : TRUE

RECURSIVE PrefixAllRev(_, _)
\* The loop of prepend: prefix the characters from the last to the first.
PrefixAllRev(b, cs) ==
    IF cs = <<>> THEN [buf |-> b, ok |-> TRUE, val |-> "unit"]
    ELSE CHOOSE out \in {IF r.ok THEN PrefixAllRev(r.buf, t) ELSE r :
                             r \in {BufPrefix(b, cs[Len(cs)])},
                             t \in {SubSeq(cs, 1, Len(cs) - 1)}} : TRUE

\* A prepend that prefixes the characters from the first to the last.
BufPrependReversed(b, cs) ==
    LET free == b.cap - BufLen(b)
    IN  IF b.full \/ Len(cs) > free
        THEN [buf |-> b, ok |-> FALSE, val |-> BufferFullError]
        ELSE CHOOSE out \in {IF r.ok THEN [r EXCEPT !.val = r.buf.cap - BufLen(r.buf)]
                                       ELSE r : r \in {PrefixAllFwd(b, cs)}} : TRUE

BufPrepend(b, cs) ==
    LET free == b.cap - BufLen(b)
    IN  IF b.full \/ Len(cs) > free
        THEN [buf |-> b, ok |-> FALSE, val |-> BufferFullError]
        ELSE CHOOSE out \in {IF r.ok THEN [r EXCEPT !.val = r.buf.cap - BufLen(r.buf)]
                                       ELSE r : r \in {PrefixAllRev(b, cs)}} : TRUE

\* The characters a buffer holds, in the order read() would return them.
BufContents(b) == [i \in 1..BufLen(b) |-> b.buffer[(b.start + i - 1) % b.cap]]

\* ------------------------------------------------------------------------
\* matcher.rs and matcher/*.rs
\* ------------------------------------------------------------------------

\* Every matcher is one record: the fields a matcher type does not have keep
\* their initial value. `found` is an Option<usize> holding a 1-based index
\* into targets; `matching` holds Target::matching of every target.
NewMatcher(kind, token_type, precedence, targets) ==
    [kind |-> kind, token_type |-> token_type, precedence |-> precedence,
     index |-> 0, running |-> TRUE, dot |-> FALSE, float |-> FALSE,
     line |-> 0, column |-> 0, found |-> <<>>, targets |-> targets,
     matching |-> [i \in 1..Len(targets) |-> TRUE]]

WordMatcher(precedence) == NewMatcher("word", TOKEN_TYPE_WORD, precedence, <<>>)

IntegerMatcher(precedence) == NewMatcher("integer", TOKEN_TYPE_INTEGER, precedence, <<>>)

FloatMatcher(precedence) == NewMatcher("float", TOKEN_TYPE_FLOAT, precedence, <<>>)

SymbolMatcher(precedence) == NewMatcher("symbol", TOKEN_TYPE_SYMBOL, precedence, <<>>)

WhitespaceMatcher(precedence) ==
    NewMatcher("whitespace", TOKEN_TYPE_WHITESPACE, precedence, <<>>)

\* ExactMatcher::build_exact_matcher
ExactMatcher(targets, token_type, precedence) ==
    NewMatcher("exact", token_type, precedence, targets)

\* KeywordMatcher::build_matcher_keyword
KeywordMatcher(targets, token_type, precedence) ==
    NewMatcher("keyword", token_type, precedence, targets)

\* A reset that leaves the literal the last attempt found.
ResetKeepsFound(m) ==
    [m EXCEPT !.index = 0, !.running = TRUE, !.dot = FALSE, !.float = FALSE,
              !.line = 0, !.column = 0,
              !.matching = [i \in 1..Len(m.targets) |-> TRUE]]

\* The token type of a matcher that is not one of the crate's.
TOKEN_TYPE_CUSTOM == 200

CustomMatcher(precedence) == NewMatcher("custom", TOKEN_TYPE_CUSTOM, precedence, <<>>)

\* Matcher::reset of every matcher type.
Reset(m) ==
    [m EXCEPT !.index = 0, !.running = TRUE, !.dot = FALSE, !.float = FALSE,
              !.line = 0, !.column = 0, !.found = <<>>,
              !.matching = [i \in 1..Len(m.targets) |-> TRUE]]

\* A MatcherResult together with the matcher after the call.
Running(m) == [m |-> m, res |-> "Running", token |-> <<>>]

Failed(m) == [m |-> m, res |-> "Failed", token |-> <<>>]

Matched(m, t) == [m |-> m, res |-> "Matched", token |-> <<t>>]

\* A token generator that takes every character handed to the matcher, the
\* one that ended the run included.
GenerateRunTokenWhole(m, value) ==
    IF m.index > 0
    THEN Matched(m, Token(value, m.token_type, m.index, 0, m.index, m.precedence))
    ELSE Failed(m)

\* generate_word_token, generate_integer_token, generate_symbol_token
GenerateRunToken(m, value) ==
    IF m.index > 0
    THEN Matched(m, Token(SliceTo(value, m.index), m.token_type, m.index,
                          0, m.index, m.precedence))
    ELSE Failed(m)

WordFindMatch(m, oc, value) ==
    IF oc # <<>> /\ IsAlphabetic(oc[1])
    THEN Running([m EXCEPT !.index = m.index + 1])
    ELSE GenerateRunToken([m EXCEPT !.running = FALSE], value)

IntegerFindMatch(m, oc, value) ==
    IF oc # <<>> /\ IsNumeric(oc[1])
    THEN Running([m EXCEPT !.index = m.index + 1])
    ELSE GenerateRunToken([m EXCEPT !.running = FALSE], value)

SymbolFindMatch(m, oc, value) ==
    IF oc # <<>> /\ ~IsWhitespace(oc[1]) /\ ~IsAlphanumeric(oc[1])
    THEN Running([m EXCEPT !.index = m.index + 1])
    ELSE GenerateRunToken([m EXCEPT !.running = FALSE], value)

\* A FloatMatcher for which a dot is enough: no digit need follow it.
GenerateFloatTokenAfterDot(m, value) ==
    IF m.index > 0 /\ m.dot
    THEN Matched(m, Token(SliceTo(value, m.index), m.token_type, m.index,
                          0, m.index, m.precedence))
    ELSE Failed(m)

GenerateFloatToken(m, value) ==
    IF m.index > 0 /\ m.float
    THEN Matched(m, Token(SliceTo(value, m.index), m.token_type, m.index,
                          0, m.index, m.precedence))
    ELSE Failed(m)

FloatFindMatch(m, oc, value) ==
    IF oc = <<>> THEN GenerateFloatToken([m EXCEPT !.running = FALSE], value)
    ELSE IF oc[1] = "." /\ ~m.dot /\ m.index > 0
    THEN Running([m EXCEPT !.index = m.index + 1, !.dot = TRUE])
    ELSE IF IsNumeric(oc[1])
    THEN Running([m EXCEPT !.index = m.index + 1, !.float = (m.dot \/ m.float)])
    ELSE GenerateFloatToken([m EXCEPT !.running = FALSE], value)

GenerateWhitespaceToken(m, value) ==
    IF m.index > 0
    THEN Matched(m, Token(SliceTo(value, m.index), m.token_type, m.index,
                          m.line, m.column, m.precedence))
    ELSE Failed(m)

\* A WhitespaceMatcher that counts a line for a carriage return too.
WhitespaceCountsCR(m, oc, value) ==
    IF oc # <<>> /\ IsWhitespace(oc[1])
    THEN Running([m EXCEPT !.index = m.index + 1,
                           !.column = IF oc[1] \in {"CR", "LF"} THEN 1
                                      ELSE m.column + 1,
                           !.line = IF oc[1] \in {"CR", "LF"} THEN m.line + 1
                                    ELSE m.line])
    ELSE GenerateWhitespaceToken([m EXCEPT !.running = FALSE], value)

WhitespaceFindMatch(m, oc, value) ==
    IF oc # <<>> /\ IsWhitespace(oc[1])
    THEN Running([m EXCEPT !.index = m.index + 1,
                           !.column = IF oc[1] = "CR" THEN 0
                                      ELSE IF oc[1] = "LF" THEN 1
                                      ELSE m.column + 1,
                           !.line = IF oc[1] = "LF" THEN m.line + 1 ELSE m.line])
    ELSE GenerateWhitespaceToken([m EXCEPT !.running = FALSE], value)

\* target.get(index): Some exactly when index is inside the target.
TargetGet(target, index) == IF index < Len(target) THEN <<target[index + 1]>> ELSE <<>>

\* The last element of a set of target indexes a loop assigns to `found`,
\* or the old value when the loop assigns nothing.
LastFound(old, hits) ==
    IF hits = {} THEN old ELSE <<CHOOSE i \in hits : \A j \in hits : j <= i>>

FirstFound(old, hits) ==
    IF hits = {} THEN old ELSE <<CHOOSE i \in hits : \A j \in hits : i <= j>>

GenerateExactToken(m) ==
    IF m.found = <<>> THEN Failed(m)
    ELSE LET target == m.targets[m.found[1]]
         IN  Matched(m, Token(target, m.token_type, Len(target),
                              0, Len(target), m.precedence))

\* An ExactMatcher that keeps the first literal it has found.
ExactFindMatchFirst(m, oc, value) ==
    LET live == {i \in 1..Len(m.targets) : m.matching[i]}
        keep(hits) == IF m.found # <<>> THEN m.found ELSE LastFound(m.found, hits)
    IN  IF oc = <<>>
        THEN LET hits == {i \in live : TargetGet(m.targets[i], m.index) = <<>>}
             IN  GenerateExactToken([m EXCEPT !.running = FALSE,
                                              !.found = keep(hits)])
        ELSE LET same == {i \in live : TargetGet(m.targets[i], m.index) = oc}
                 hits == {i \in live : /\ TargetGet(m.targets[i], m.index) = <<>>
                                       /\ m.index > 0}
                 m2   == [m EXCEPT !.running = (same # {}),
                                   !.matching = [i \in 1..Len(m.targets) |-> i \in same],
                                   !.found = keep(hits),
                                   !.index = m.index + 1]
             IN  IF ~m2.running THEN GenerateExactToken(m2) ELSE Running(m2)

ExactFindMatch(m, oc, value) ==
    LET live == {i \in 1..Len(m.targets) : m.matching[i]}
    IN  IF oc = <<>>
        THEN LET hits == {i \in live : TargetGet(m.targets[i], m.index) = <<>>}
             IN  GenerateExactToken([m EXCEPT !.running = FALSE,
                                              !.found = LastFound(m.found, hits)])
        ELSE LET same == {i \in live : TargetGet(m.targets[i], m.index) = oc}
                 hits == {i \in live : /\ TargetGet(m.targets[i], m.index) = <<>>
                                       /\ m.index > 0}
                 m2   == [m EXCEPT !.running = (same # {}),
                                   !.matching = [i \in 1..Len(m.targets) |-> i \in same],
                                   !.found = LastFound(m.found, hits),
                                   !.index = m.index + 1]
             IN  IF ~m2.running THEN GenerateExactToken(m2) ELSE Running(m2)

GenerateKeywordToken(m) ==
    IF m.found = <<>> THEN Failed(m)
    ELSE LET target == m.targets[m.found[1]]
             len    == StrByteLen(target)
         IN  Matched(m, Token(target, m.token_type, len, 0, len, m.precedence))

\* A KeywordMatcher that takes a keyword whatever character follows it.
KeywordFindMatchAnyEnd(m, oc, value) ==
    LET live == {i \in 1..Len(m.targets) : m.matching[i]}
    IN  IF oc = <<>>
        THEN LET hits == {i \in live : TargetGet(m.targets[i], m.index) = <<>>}
             IN  GenerateKeywordToken([m EXCEPT !.running = FALSE,
                                                !.found = FirstFound(m.found, hits)])
        ELSE IF live = {}
        THEN GenerateKeywordToken([m EXCEPT !.running = FALSE])
        ELSE LET same == {i \in live : TargetGet(m.targets[i], m.index) = oc}
                 hits == {i \in live : /\ TargetGet(m.targets[i], m.index) = <<>>
                                       /\ m.index > 0}
                 m2   == [m EXCEPT !.running = (same # {}),
                                   !.matching = [i \in 1..Len(m.targets) |-> i \in same],
                                   !.found = LastFound(m.found, hits),
                                   !.index = m.index + 1]
             IN  IF m2.running THEN Running(m2) ELSE GenerateKeywordToken(m2)

KeywordFindMatch(m, oc, value) ==
    LET live == {i \in 1..Len(m.targets) : m.matching[i]}
    IN  IF oc = <<>>
        THEN LET hits == {i \in live : TargetGet(m.targets[i], m.index) = <<>>}
             IN  GenerateKeywordToken([m EXCEPT !.running = FALSE,
                                                !.found = FirstFound(m.found, hits)])
        ELSE IF live = {}
        THEN GenerateKeywordToken([m EXCEPT !.running = FALSE])
        ELSE LET same == {i \in live : TargetGet(m.targets[i], m.index) = oc}
                 hits == {i \in live : /\ TargetGet(m.targets[i], m.index) = <<>>
                                       /\ m.index > 0
                                       /\ ~IsAlphanumeric(oc[1])}
                 m2   == [m EXCEPT !.running = (same # {}),
                                   !.matching = [i \in 1..Len(m.targets) |-> i \in same],
                                   !.found = LastFound(m.found, hits),
                                   !.index = m.index + 1]
             IN  IF m2.running THEN Running(m2) ELSE GenerateKeywordToken(m2)

\* An implementor of Matcher outside the crate: it matches the characters up
\* to and including the next line feed, and returns Running() for every
\* other character and for end of input, where its line is not finished.
CustomFindMatch(m, oc, value) ==
    IF oc # <<>> /\ oc[1] = "LF"
    THEN Matched([m EXCEPT !.index = m.index + 1, !.running = FALSE],
                 Token(SliceTo(value, m.index + 1), m.token_type, m.index + 1,
                       0, m.index + 1, m.precedence))
    ELSE IF oc # <<>> THEN Running([m EXCEPT !.index = m.index + 1])
    ELSE Running(m)

\* Matcher::find_match, dispatched on the matcher type.
FindMatch(m, oc, value) ==
    CASE m.kind = "word" -> WordFindMatch(m, oc, value)
      [] m.kind = "integer" -> IntegerFindMatch(m, oc, value)
      [] m.kind = "float" -> FloatFindMatch(m, oc, value)
      [] m.kind = "symbol" -> SymbolFindMatch(m, oc, value)
      [] m.kind = "whitespace" -> WhitespaceFindMatch(m, oc, value)
      [] m.kind = "exact" -> ExactFindMatch(m, oc, value)
      [] m.kind = "keyword" -> KeywordFindMatch(m, oc, value)
      [] m.kind = "custom" -> CustomFindMatch(m, oc, value)

\* ------------------------------------------------------------------------
\* input.rs
\* ------------------------------------------------------------------------

\* InputString::new. fault is empty: an InputString never returns an error.
InputString(text) == [chars |-> text, index |-> 0, fault |-> <<>>]

\* An implementor of the input trait over `text` whose next returns
\* Err(Error(msg)) when it is called after `at` characters: every time when
\* sticky, and else once, the call after it going on with the text.
FaultyInput(text, at, msg, sticky) ==
    [chars |-> text, index |-> 0,
     fault |-> <<[at |-> at, msg |-> msg, sticky |-> sticky, fired |-> FALSE]>>]

\* The call of next on inp returns an error.
Faults(inp) ==
    /\ inp.fault # <<>>
    /\ inp.index = inp.fault[1].at
    /\ inp.fault[1].sticky \/ ~inp.fault[1].fired

\* next of the input trait: the input after the call, the Option<char>
\* pulled and the error message, if any.
InputNext(inp) ==
    IF Faults(inp)
    THEN [inp |-> [inp EXCEPT !.fault[1].fired = TRUE], c |-> <<>>,
          err |-> <<inp.fault[1].msg>>]
    ELSE IF inp.index < Len(inp.chars)
    THEN [inp |-> [inp EXCEPT !.index = inp.index + 1], c |-> <<inp.chars[inp.index + 1]>>,
          err |-> <<>>]
    ELSE [inp |-> inp, c |-> <<>>, err |-> <<>>]

\* ------------------------------------------------------------------------
\* lib.rs: results
\* ------------------------------------------------------------------------

\* Ok(Some(token))
OkToken(t) == [kind |-> "token", token |-> <<t>>, msg |-> <<>>]

\* Ok(None)
OkNone == [kind |-> "eof", token |-> <<>>, msg |-> <<>>]

\* Err(LexxError::TokenNotFound(..)): the message names line, column and c.
TokenNotFound(l, col, c) == [kind |-> "TokenNotFound", token |-> <<>>, msg |-> <<l, col, c>>]

\* An input error turned into an error that carries a fixed text.
InputErrorAnonymous(e) == [kind |-> "Error", token |-> <<>>, msg |-> <<"error">>]

\* Err(LexxError::Error(e)), converted from the input's LexxInputError::Error(e).
InputError(e) == [kind |-> "Error", token |-> <<>>, msg |-> <<e>>]

\* What rewind returns: Ok(free) or Err(BufferFullError).
RewindResult(r) ==
    [kind |-> IF r.ok THEN "ok" ELSE BufferFullError, token |-> <<>>,
     msg |-> IF r.ok THEN <<r.val>> ELSE <<>>]

\* set_input returns nothing.
Unit == [kind |-> "unit", token |-> <<>>, msg |-> <<>>]

\* ------------------------------------------------------------------------
\* lib.rs: Lexxor::get_token
\* ------------------------------------------------------------------------

\* A Matched arm that takes every Matched token.
IterationCandidateLatest(found, prec, token) ==
    [found_token |-> <<token>>, precedence |-> token.precedence]

\* A Matched arm that keeps the iteration's token on equal precedence.
IterationCandidateStrict(found, prec, token) ==
    IF found # <<>>
    THEN IF prec < token.precedence
         THEN [found_token |-> <<token>>, precedence |-> token.precedence]
         ELSE [found_token |-> found, precedence |-> prec]
    ELSE [found_token |-> <<token>>, precedence |-> token.precedence]

\* The Matched arm of the loop over the matchers: `found` and `prec` are the
\* iteration's found_token and the local precedence.
IterationCandidate(found, prec, token) ==
    IF found # <<>>
    THEN IF prec <= token.precedence
         THEN [found_token |-> <<token>>, precedence |-> token.precedence]
         ELSE [found_token |-> found, precedence |-> prec]
    ELSE [found_token |-> <<token>>, precedence |-> token.precedence]

\* The body of the loop over the matchers for matcher i.
FeedOne(acc, i, c, val) ==
    IF ~acc.ms[i].running THEN acc
    ELSE CHOOSE out \in
           {CASE r.res = "Running" -> [acc EXCEPT !.ms[i] = r.m, !.running = TRUE]
              [] r.res = "Failed" -> [acc EXCEPT !.ms[i] = r.m]
              [] r.res = "Matched" ->
                   [acc EXCEPT !.ms[i] = r.m,
                               !.found_token = IterationCandidate(acc.found_token,
                                   acc.precedence, r.token[1]).found_token,
                               !.precedence = IterationCandidate(acc.found_token,
                                   acc.precedence, r.token[1]).precedence] :
            r \in {FindMatch(acc.ms[i], c, val)}} : TRUE

RECURSIVE FeedMatchers(_, _, _, _)
\* for m in &mut self.matchers { if m.is_running() { match m.find_match(..) } }
\* acc is [ms, found_token, precedence, running]; i is the next matcher.
FeedMatchers(acc, i, c, val) ==
    IF i > Len(acc.ms) THEN acc
    ELSE CHOOSE out \in {FeedMatchers(a, j, cc, v) :
                            a \in {FeedOne(acc, i, c, val)}, j \in {i + 1},
                            cc \in {c}, v \in {val}} : TRUE

\* An update of self.found_token that keeps the stored candidate on equal
\* precedence.
BestCandidateStrict(best, found) ==
    IF found = <<>> THEN best
    ELSE IF best = <<>> THEN found
    ELSE IF best[1].precedence < found[1].precedence THEN found
    ELSE best

\* The update of self.found_token by the iteration's found_token.
BestCandidate(best, found) ==
    IF found = <<>> THEN best
    ELSE IF best = <<>> THEN found
    ELSE IF best[1].precedence <= found[1].precedence THEN found
    ELSE best

\* The characters the commit hands to cache.prepend, <<>> when it does not
\* call it.
OverRead(val, token) ==
    IF Len(val) > token.len THEN SliceFrom(val, token.len) ELSE <<>>

\* A commit that returns the token with the line and column of the matcher.
AdvanceKeepsReported(l, c, token) ==
    [line   |-> IF token.line > 0 THEN l + token.line ELSE l,
     column |-> IF token.line > 0 THEN token.column ELSE c + token.column,
     token  |-> token]

\* The position update of the commit and the token it returns.
Advance(l, c, token) ==
    [line   |-> IF token.line > 0 THEN l + token.line ELSE l,
     column |-> IF token.line > 0 THEN token.column ELSE c + token.column,
     token  |-> [token EXCEPT !.line = l, !.column = c]]

\* ------------------------------------------------------------------------
\* State
\* ------------------------------------------------------------------------

VARIABLES
    matchers,       \* Lexxor::matchers, every matcher with its state
    input,          \* Lexxor::input
    cache,          \* Lexxor::cache, the replay buffer
    value,          \* Lexxor::value, the accumulator of the attempt
    lexxor_result,  \* Lexxor::lexxor_result, the lookahead slot
    found_token,    \* Lexxor::found_token, the best candidate
    line,           \* Lexxor::line
    column,         \* Lexxor::column
    precedence,     \* the local `precedence` of get_token
    pc,             \* "idle", "fetch" (inside the loop of get_token) or "panicked"
    caller,         \* the method that called get_token
    hist,           \* history: the calls made so far, with what they returned
    pre,            \* history: the engine as the running call found it
    reported,       \* history: the Matched outcomes of the last attempt
    iter,           \* history: fetch iterations made by the last attempt
    overread,       \* history: the characters the last commit replayed
    behind          \* history: the replay buffer that commit replayed them into

vars == <<matchers, input, cache, value, lexxor_result, found_token, line,
          column, precedence, pc, caller, hist, pre, reported, iter, overread,
          behind>>

\* What Lexxor::new was given for every matcher of the list ms.
MatcherList(ms) ==
    [i \in 1..Len(ms) |-> [kind |-> ms[i].kind, token_type |-> ms[i].token_type,
                           precedence |-> ms[i].precedence,
                           targets |-> ms[i].targets]]

\* What a caller can observe of the engine between two calls.
Snapshot(l, c, ch, inp, lr, ms) ==
    [line |-> l, column |-> c, cache |-> BufContents(ch), index |-> inp.index,
     text |-> inp.chars, la |-> lr, list |-> MatcherList(ms)]

Now == Snapshot(line, column, cache, input, lexxor_result, matchers)

\* One finished call.
Call(op, arg, res, before, after) ==
    [op |-> op, arg |-> arg, res |-> res, pre |-> before, post |-> after]

\* ------------------------------------------------------------------------
\* lib.rs: Lexxor::get_token, one iteration of its loop
\* ------------------------------------------------------------------------

\* The Matched outcomes of one iteration: the matchers that are running when
\* the iteration starts and answer Matched to c.
Reports(ms, c, val, n) ==
    {[iter |-> n, idx |-> i, token |-> FindMatch(ms[i], c, val).token[1]] :
        i \in {j \in 1..Len(ms) : /\ ms[j].running
                                  /\ FindMatch(ms[j], c, val).res = "Matched"}}

\* The first lines of the loop: the character c pulled from the cache or from
\* the input, and the accumulator after the push.
Pulled ==
    IF BufIsEmpty(cache)
    THEN [c |-> InputNext(input).c, input |-> InputNext(input).inp, cache |-> cache,
          value |-> value \o InputNext(input).c, err |-> InputNext(input).err]
    ELSE [c |-> <<BufRead(cache).val>>, input |-> input, cache |-> BufRead(cache).buf,
          value |-> Append(value, BufRead(cache).val), err |-> <<>>]

\* The loop over the matchers, fed what was pulled.
Fed(p) ==
    FeedMatchers([ms |-> matchers, found_token |-> <<>>, precedence |-> precedence,
                  running |-> FALSE], 1, p.c, p.value)

\* The commit of the best candidate `token`: the replay of the over-read
\* characters and the position update.
Commit(base, token) ==
    CHOOSE out \in
      {IF over # <<>> /\ ~pp.ok
       THEN [base EXCEPT !.status = "panic"]
       ELSE [base EXCEPT !.status = "return",
                         !.found_token = <<>>,
                         !.cache = IF over # <<>> THEN pp.buf ELSE base.cache,
                         !.line = adv.line, !.column = adv.column,
                         !.res = OkToken(adv.token),
                         !.replay = over] :
       over \in {OverRead(base.value, token)},
       pp \in {BufPrepend(base.cache, OverRead(base.value, token))},
       adv \in {Advance(line, column, token)}} : TRUE

\* A get_token that puts the accumulated characters back in the replay
\* buffer before it returns TokenNotFound.
DecideReplaysOnError(base, running) ==
    IF ~running
    THEN IF base.found_token # <<>> THEN Commit(base, base.found_token[1])
         ELSE IF base.c = <<>> THEN [base EXCEPT !.status = "return", !.res = OkNone]
         ELSE [base EXCEPT !.status = "return",
                           !.cache = IF BufPrepend(base.cache, base.value).ok
                                     THEN BufPrepend(base.cache, base.value).buf
                                     ELSE base.cache,
                           !.res = TokenNotFound(line, column, base.c)]
    ELSE IF base.c = <<>> THEN [base EXCEPT !.status = "return", !.res = OkNone]
    ELSE base

\* A get_token that goes round the loop again when a matcher is running,
\* whatever was pulled.
DecideWaitsAtEnd(base, running) ==
    IF ~running
    THEN IF base.found_token # <<>> THEN Commit(base, base.found_token[1])
         ELSE IF base.c = <<>> THEN [base EXCEPT !.status = "return", !.res = OkNone]
         ELSE [base EXCEPT !.status = "return",
                           !.res = TokenNotFound(line, column, base.c)]
    ELSE base

\* The rest of the iteration, from the state `base` the loop over the
\* matchers left.
Decide(base, running) ==
    IF ~running
    THEN IF base.found_token # <<>> THEN Commit(base, base.found_token[1])
         ELSE IF base.c = <<>> THEN [base EXCEPT !.status = "return", !.res = OkNone]
         ELSE [base EXCEPT !.status = "return",
                           !.res = TokenNotFound(line, column, base.c)]
    ELSE IF base.c = <<>> THEN [base EXCEPT !.status = "return", !.res = OkNone]
    ELSE base

\* A get_token that drops the oldest accumulated character when the
\* accumulator is full.
IterateMakesRoom(p) ==
    IF p.err # <<>>
    THEN [matchers |-> matchers, input |-> p.input, cache |-> p.cache, value |-> value,
          found_token |-> found_token, precedence |-> precedence,
          line |-> line, column |-> column, c |-> p.c,
          status |-> "return", res |-> InputError(p.err[1]), replay |-> <<>>]
    ELSE
    CHOOSE out \in
      {Decide([matchers |-> fed.ms, input |-> p.input, cache |-> p.cache,
               value |-> IF Len(p.value) > CAP THEN Tail(p.value) ELSE p.value,
               found_token |-> BestCandidate(found_token, fed.found_token),
               precedence |-> fed.precedence,
               line |-> line, column |-> column, c |-> p.c,
               status |-> "continue", res |-> OkNone, replay |-> <<>>],
              fed.running) :
       fed \in {Fed(p)}} : TRUE

\* One iteration of the loop. status is "continue" when the loop goes round
\* again, "return" when get_token returns res, and "panic".
IterateWith(p) ==
    IF p.err # <<>>
    THEN [matchers |-> matchers, input |-> p.input, cache |-> p.cache, value |-> value,
          found_token |-> found_token, precedence |-> precedence,
          line |-> line, column |-> column, c |-> p.c,
          status |-> "return", res |-> InputError(p.err[1]), replay |-> <<>>]
    ELSE IF p.c # <<>> /\ Len(value) >= CAP
    THEN [matchers |-> matchers, input |-> p.input, cache |-> p.cache, value |-> value,
          found_token |-> found_token, precedence |-> precedence,
          line |-> line, column |-> column, c |-> p.c,
          status |-> "panic", res |-> OkNone, replay |-> <<>>]
    ELSE CHOOSE out \in
           {Decide([matchers |-> fed.ms, input |-> p.input, cache |-> p.cache,
                    value |-> p.value,
                    found_token |-> BestCandidate(found_token, fed.found_token),
                    precedence |-> fed.precedence,
                    line |-> line, column |-> column, c |-> p.c,
                    status |-> "continue", res |-> OkNone, replay |-> <<>>],
                   fed.running) :
            fed \in {Fed(p)}} : TRUE

Iterate == CHOOSE out \in {IterateWith(p) : p \in {Pulled}} : TRUE

\* ------------------------------------------------------------------------
\* Engines and inputs explored
\* ------------------------------------------------------------------------

\* All texts of at most n characters of alphabet A.
Texts(A, n) == UNION {[1..k -> A] : k \in 0..n}

\* The matcher lists explored, each with the alphabet of its input texts.
Setups ==
    { [ms |-> <<WhitespaceMatcher(0), WordMatcher(0)>>,
       alphabet |-> {"a", "SP", "LF", "CR", "1"}, faulty |-> FALSE],
      [ms |-> <<FloatMatcher(0), SymbolMatcher(0), IntegerMatcher(0)>>,
       alphabet |-> {"1", "."}, faulty |-> FALSE],
      [ms |-> <<WordMatcher(0),
                ExactMatcher(<< <<"a">>, <<"a", "a", "SP">> >>, TOKEN_TYPE_EXACT, 0)>>,
       alphabet |-> {"a", "SP"}, faulty |-> FALSE],
      [ms |-> <<ExactMatcher(<< <<"a">>, <<"a", "SP", "a", "a">> >>, TOKEN_TYPE_EXACT, 0),
                WordMatcher(0), WhitespaceMatcher(0)>>,
       alphabet |-> {"a", "SP"}, faulty |-> FALSE],
      [ms |-> <<ExactMatcher(<< <<"a">> >>, TOKEN_TYPE_EXACT, 1), WordMatcher(0)>>,
       alphabet |-> {"a", "SP"}, faulty |-> FALSE],
      [ms |-> <<FloatMatcher(0)>>,
       alphabet |-> {"1", "."}, faulty |-> FALSE],
      [ms |-> <<WordMatcher(0), WhitespaceMatcher(0),
                KeywordMatcher(<< <<"a">>, <<"U+E9">> >>, TOKEN_TYPE_KEYWORD, 1)>>,
       alphabet |-> {"a", "U+E9", "SP"}, faulty |-> FALSE] }

\* The matcher lists on which every interleaving of the API calls is explored.
ApiSetups ==
    { [ms |-> <<WhitespaceMatcher(0), WordMatcher(0)>>,
       alphabet |-> {"a", "SP", "LF"}, faulty |-> FALSE],
      [ms |-> <<WordMatcher(0), WhitespaceMatcher(0),
                KeywordMatcher(<< <<"U+E9">> >>, TOKEN_TYPE_KEYWORD, 1)>>,
       alphabet |-> {"a", "U+E9", "SP"}, faulty |-> FALSE] }

\* Matchers explored one at a time, each with the alphabet of its texts.
MatchSetups ==
    { [ms |-> <<ExactMatcher(<< <<"a", "b", "a">>, <<"a">> >>, TOKEN_TYPE_EXACT, 0)>>,
       alphabet |-> {"a", "b"}, faulty |-> FALSE],
      [ms |-> <<ExactMatcher(<< <<"b">>, <<"a", "b">>, <<"b", "b">>, <<>> >>,
                             TOKEN_TYPE_EXACT, 0)>>,
       alphabet |-> {"a", "b"}, faulty |-> FALSE],
      [ms |-> <<KeywordMatcher(<< <<"a">>, <<"a", "b">> >>, TOKEN_TYPE_KEYWORD, 0)>>,
       alphabet |-> {"a", "b", "1", "SP"}, faulty |-> FALSE],
      [ms |-> <<IntegerMatcher(0), WordMatcher(0),
                KeywordMatcher(<< <<"a">> >>, TOKEN_TYPE_KEYWORD, 1)>>,
       alphabet |-> {"a", "1", "SP"}, faulty |-> FALSE],
      [ms |-> <<FloatMatcher(0)>>,
       alphabet |-> {"1", ".", "a"}, faulty |-> FALSE],
      [ms |-> <<FloatMatcher(0), SymbolMatcher(0), IntegerMatcher(0)>>,
       alphabet |-> {"1", "."}, faulty |-> FALSE] }

\* The matcher lists with a matcher that is not one of the crate's.
CustomSetups ==
    { [ms |-> <<WordMatcher(0), CustomMatcher(0)>>,
       alphabet |-> {"a", "LF"}, faulty |-> FALSE],
      [ms |-> <<CustomMatcher(0), WhitespaceMatcher(1), WordMatcher(0)>>,
       alphabet |-> {"a", "SP", "LF"}, faulty |-> FALSE],
      [ms |-> <<CustomMatcher(0)>>,
       alphabet |-> {"a", "LF"}, faulty |-> TRUE] }

\* The matcher lists explored over inputs that return an error.
FaultSetups ==
    { [ms |-> <<WhitespaceMatcher(0), WordMatcher(0)>>,
       alphabet |-> {"a", "SP"}, faulty |-> TRUE] }

\* The messages of the input errors.
FaultMessages == {"disk", "pipe"}

\* The texts set_input installs.
NewTexts == {<<"b", "CR">>}

\* Tokens no attempt of the engine produced, for rewind.
ForeignTokens ==
    {Token(<<"1", "SP">>, TOKEN_TYPE_INTEGER, 2, 2, 3, 0),
     Token(<<>>, TOKEN_TYPE_WORD, 0, 3, 1, 0)}

\* ------------------------------------------------------------------------
\* Actions
\* ------------------------------------------------------------------------

\* Lexxor::new over one of the given setups and one of its texts of at most n
\* characters.
Boot(setups, n) ==
    /\ \E s \in setups : \E text \in Texts(s.alphabet, n) :
          /\ matchers = s.ms
          /\ \/ /\ ~s.faulty
                /\ input = InputString(text)
             \/ /\ s.faulty
                /\ \E at \in 0..Len(text) : \E msg \in FaultMessages :
                   \E sticky \in BOOLEAN :
                       input = FaultyInput(text, at, msg, sticky)
    /\ cache = NewBuffer
    /\ value = <<>>
    /\ lexxor_result = <<>>
    /\ found_token = <<>>
    /\ line = 1
    /\ column = 1
    /\ precedence = 0
    /\ pc = "idle"
    /\ caller = "none"
    /\ hist = <<>>
    /\ pre = Snapshot(1, 1, NewBuffer, input, <<>>, matchers)
    /\ reported = {}
    /\ iter = 0
    /\ overread = <<>>
    /\ behind = <<>>

\* The first lines of get_token, up to the loop.
StartGetToken(who) ==
    /\ value' = <<>>
    /\ matchers' = [i \in 1..Len(matchers) |-> Reset(matchers[i])]
    /\ found_token' = <<>>
    /\ precedence' = 0
    /\ pc' = "fetch"
    /\ caller' = who
    /\ pre' = Now
    /\ reported' = {}
    /\ iter' = 0
    /\ UNCHANGED <<input, cache, lexxor_result, line, column, hist, overread,
                   behind>>

\* Lexxor::next_token
NextToken ==
    /\ pc = "idle"
    /\ Len(hist) < MaxCalls
    /\ IF lexxor_result # <<>>
       THEN /\ lexxor_result' = <<>>
            /\ hist' = Append(hist, Call("next_token", <<>>, lexxor_result[1], Now,
                                         Snapshot(line, column, cache, input, <<>>,
                                                  matchers)))
            /\ UNCHANGED <<matchers, input, cache, value, found_token, line, column,
                           precedence, pc, caller, pre, reported, iter, overread,
                           behind>>
       ELSE StartGetToken("next_token")

\* A look_ahead that runs a new attempt whatever the lookahead slot holds.
LookAheadAgain ==
    /\ pc = "idle"
    /\ Len(hist) < MaxCalls
    /\ StartGetToken("look_ahead")

\* Lexxor::look_ahead
LookAhead ==
    /\ pc = "idle"
    /\ Len(hist) < MaxCalls
    /\ IF lexxor_result # <<>>
       THEN /\ hist' = Append(hist, Call("look_ahead", <<>>, lexxor_result[1], Now, Now))
            /\ UNCHANGED <<matchers, input, cache, value, lexxor_result, found_token,
                           line, column, precedence, pc, caller, pre, reported, iter,
                           overread, behind>>
       ELSE StartGetToken("look_ahead")

\* One iteration of the loop of get_token, and the return to the caller when
\* the iteration ends the loop.
Fetch ==
    /\ pc = "fetch"
    /\ \E it \in {Iterate} :
       \E lr \in {IF it.status = "return" /\ caller = "look_ahead"
                   THEN <<it.res>> ELSE lexxor_result} :
           /\ matchers' = it.matchers
           /\ input' = it.input
           /\ cache' = it.cache
           /\ value' = it.value
           /\ found_token' = it.found_token
           /\ precedence' = it.precedence
           /\ line' = it.line
           /\ column' = it.column
           /\ lexxor_result' = lr
           /\ pc' = CASE it.status = "continue" -> "fetch"
                      [] it.status = "return" -> "idle"
                      [] it.status = "panic" -> "panicked"
           /\ hist' = IF it.status = "return"
                      THEN Append(hist, Call(caller, <<>>, it.res, pre,
                                   Snapshot(it.line, it.column, it.cache, it.input, lr,
                                            it.matchers)))
                      ELSE hist
           /\ reported' = IF it.status = "panic" \/ it.res.kind = "Error" THEN reported
                          ELSE reported \cup Reports(matchers, it.c, it.value, iter + 1)
           /\ iter' = iter + 1
           /\ overread' = IF it.status = "return" THEN it.replay ELSE overread
           /\ behind' = IF it.status = "return" THEN BufContents(Pulled.cache)
                        ELSE behind
           /\ UNCHANGED <<caller, pre>>

\* Lexxor::rewind
Rewind(token) ==
    /\ pc = "idle"
    /\ Len(hist) < MaxCalls
    /\ \E r \in {BufPrepend(cache, token.value)} :
           /\ line' = token.line
           /\ column' = token.column
           /\ cache' = r.buf
           /\ hist' = Append(hist, Call("rewind", <<token>>, RewindResult(r), Now,
                          Snapshot(token.line, token.column, r.buf, input, lexxor_result,
                                   matchers)))
    /\ overread' = <<>>
    /\ behind' = <<>>
    /\ UNCHANGED <<matchers, input, value, lexxor_result, found_token, precedence,
                   pc, caller, pre, reported, iter>>

\* A set_input that does not clear the replay buffer.
SetInputKeepsCache(text) ==
    /\ pc = "idle"
    /\ Len(hist) < MaxCalls
    /\ input' = InputString(text)
    /\ line' = 1
    /\ column' = 1
    /\ lexxor_result' = <<>>
    /\ hist' = Append(hist, Call("set_input", text, Unit, Now,
                   Snapshot(1, 1, cache, InputString(text), <<>>, matchers)))
    /\ overread' = <<>>
    /\ behind' = <<>>
    /\ UNCHANGED <<matchers, cache, value, found_token, precedence, pc, caller, pre,
                   reported, iter>>

\* Lexxor::set_input
SetInput(text) ==
    /\ pc = "idle"
    /\ Len(hist) < MaxCalls
    /\ input' = InputString(text)
    /\ line' = 1
    /\ column' = 1
    /\ cache' = BufClear(cache)
    /\ lexxor_result' = <<>>
    /\ hist' = Append(hist, Call("set_input", text, Unit, Now,
                   Snapshot(1, 1, BufClear(cache), InputString(text), <<>>, matchers)))
    /\ overread' = <<>>
    /\ behind' = <<>>
    /\ UNCHANGED <<matchers, value, found_token, precedence, pc, caller, pre,
                   reported, iter>>

\* The tokens earlier calls returned.
Returned == {hist[i].res.token[1] : i \in {j \in 1..Len(hist) : hist[j].res.kind = "token"}}

Next ==
    \/ NextToken
    \/ LookAhead
    \/ Fetch
    \/ \E token \in Returned \cup ForeignTokens : Rewind(token)
    \/ \E text \in NewTexts : SetInput(text)

Init == Boot(ApiSetups, MaxLen)

Spec == Init /\ [][Next]_vars

\* next_token and look_ahead over inputs that return an error.
NextFault == NextToken \/ LookAhead \/ Fetch

InitFault == Boot(FaultSetups, MaxLen)

SpecFault == InitFault /\ [][NextFault]_vars

\* A fresh engine on which only next_token is called.
NextScan ==
    \/ NextToken
    \/ Fetch

InitScan == Boot(Setups, MaxScanLen)

SpecScan == InitScan /\ [][NextScan]_vars

\* next_token over the matchers explored one at a time.
InitMatch == Boot(MatchSetups, MaxScanLen)

SpecMatch == InitMatch /\ [][NextScan]_vars

\* next_token over the lists with a matcher that is not one of the crate's.
InitCustom == Boot(CustomSetups, MaxScanLen)

SpecCustom == InitCustom /\ [][NextScan]_vars

\* The same, where a get_token that was called goes on running: the loop of
\* get_token is not interrupted.
SpecCustomLive == InitCustom /\ [][NextScan]_vars /\ WF_vars(Fetch)

\* ------------------------------------------------------------------------
\* Properties
\* ------------------------------------------------------------------------

\* s is a prefix of t.
IsPrefix(s, t) == Len(s) <= Len(t) /\ SubSeq(t, 1, Len(s)) = s

\* The calls of the history that ran get_token: the others were served from
\* the lookahead slot.
Attempts ==
    {i \in 1..Len(hist) : /\ hist[i].op \in {"next_token", "look_ahead"}
                          /\ hist[i].pre.la = <<>>}

\* Where snapshot s stands in the character stream: the characters of the
\* replay buffer come before the next character of the input.
StreamPos(s) == s.index - Len(s.cache)

RECURSIVE ConcatValues(_)
\* The values of the tokens the calls of h returned, one after the other.
ConcatValues(h) ==
    IF h = <<>> THEN <<>>
    ELSE CHOOSE out \in
           {(IF c.res.kind = "token" THEN c.res.token[1].value ELSE <<>>)
                \o ConcatValues(t) : c \in {Head(h)}, t \in {Tail(h)}} : TRUE

\* Only next_token was called and every call returned a token, except that
\* the last call may have returned end-of-input.
TokenRun(h) ==
    /\ \A i \in 1..Len(h) : h[i].op = "next_token"
    /\ \A i \in 1..(Len(h) - 1) : h[i].res.kind = "token"
    /\ Len(h) > 0 => h[Len(h)].res.kind \in {"token", "eof"}

\* The characters pulled from the input that are not waiting in the cache.
Consumed == SliceTo(input.chars, input.index - BufLen(cache))

\* C1: on a fresh engine, after next_token calls that each returned a token
\* (the last one possibly end-of-input), the values of the returned tokens
\* concatenate to exactly the characters consumed from the input.
C1_ValuesAreConsumedPrefix ==
    (pc = "idle" /\ TokenRun(hist)) => ConcatValues(hist) = Consumed

\* C2: the characters a commit over-read are at the front of the replay
\* buffer in their original order, before what the buffer held; the next
\* attempt is offered them first, before any input character; and an attempt
\* that returned a token left the stream at or after the end of the token.
C2_OverReadIsReplayedFirst ==
    /\ (pc = "idle" /\ overread # <<>>) => BufContents(cache) = overread \o behind
    /\ (pc = "fetch" /\ overread # <<>>) =>
          /\ IsPrefix(overread \o behind, value \o BufContents(cache))
          /\ ~BufIsEmpty(cache) => value \o BufContents(cache) = overread \o behind
    /\ \A i \in Attempts : hist[i].res.kind = "token" =>
          StreamPos(hist[i].post) >=
              StreamPos(hist[i].pre) + Len(hist[i].res.token[1].value)

\* An attempt is being offered the first of two different over-read
\* characters.
C2_Witness ==
    /\ pc = "fetch"
    /\ Len(overread) >= 2
    /\ overread[1] # overread[2]
    /\ value = <<overread[1]>>

\* The token the last attempt committed: <<>> unless the engine is idle and
\* the last call returned a token.
LastCommitted ==
    IF pc = "idle" /\ hist # <<>> /\ hist[Len(hist)].res.kind = "token"
    THEN hist[Len(hist)].res.token
    ELSE <<>>

\* Token t is token u up to the line and column the commit overwrites.
SameToken(t, u) ==
    /\ t.value = u.value
    /\ t.token_type = u.token_type
    /\ t.len = u.len
    /\ t.precedence = u.precedence

\* The Matched outcomes of the last attempt that have its highest precedence.
Top == {r \in reported : \A q \in reported : q.token.precedence <= r.token.precedence}

\* Report r came after report q: in a later iteration or, in the same
\* iteration, from a matcher later in the list.
After(r, q) == r.iter > q.iter \/ (r.iter = q.iter /\ r.idx > q.idx)

\* C3: when matchers of different precedences reported Matched during the
\* attempt, the committed token is one reported with the highest of these
\* precedences, whatever the lengths and the registration order.
C3_HighestPrecedenceWins ==
    (LastCommitted # <<>> /\ Top # reported) =>
        \E r \in Top : SameToken(LastCommitted[1], r.token)

\* A shorter token of higher precedence was committed although a matcher
\* registered later reported a longer one in a later iteration.
C3_Witness ==
    /\ LastCommitted # <<>>
    /\ \E r \in Top : \E q \in reported \ Top :
          /\ SameToken(LastCommitted[1], r.token)
          /\ q.token.len > r.token.len
          /\ After(q, r)

\* C4: when two or more matchers of the highest reported precedence reported
\* Matched during the attempt, the committed token is the longest of theirs.
C4_LongestWinsAtEqualPrecedence ==
    (LastCommitted # <<>> /\ Cardinality(Top) >= 2) =>
        /\ \E r \in Top : SameToken(LastCommitted[1], r.token)
        /\ \A r \in Top : r.token.len <= LastCommitted[1].len

\* C5 as stated: when exactly two matchers reported Matched with the highest
\* precedence and their tokens have the same length, the committed token is
\* the one of the matcher registered later.
C5_LaterRegisteredWins ==
    LastCommitted # <<>> =>
        \A r, q \in Top :
            (Top = {r, q} /\ r.idx > q.idx /\ r.token.len = q.token.len) =>
                SameToken(LastCommitted[1], r.token)

\* C5 amended: in that case the committed token is the one reported in the
\* later iteration, and the one of the matcher registered later only when
\* both were reported in the same iteration.
C5_LaterReportedWins ==
    LastCommitted # <<>> =>
        \A r, q \in Top :
            (Top = {r, q} /\ After(r, q) /\ r.token.len = q.token.len) =>
                SameToken(LastCommitted[1], r.token)

\* Two tokens of the same length and precedence were reported, the one of
\* the matcher registered earlier in a later iteration, and it was committed.
C5_Witness ==
    /\ LastCommitted # <<>>
    /\ \E r, q \in Top :
          /\ Top = {r, q}
          /\ r.token.len = q.token.len
          /\ r.iter > q.iter
          /\ r.idx < q.idx
          /\ SameToken(LastCommitted[1], r.token)
          /\ ~SameToken(LastCommitted[1], q.token)

\* The calls that return what the lookahead slot or a new attempt gives.
Reads == {i \in 1..Len(hist) : hist[i].op \in {"next_token", "look_ahead"}}

\* Snapshot s with the lookahead slot emptied.
SlotEmptied(s) == [s EXCEPT !.la = <<>>]

\* C6: a look_ahead leaves its result in the lookahead slot; the next_token
\* or look_ahead that follows it returns the same result and consumes
\* nothing; next_token empties the slot, so that the call after a look_ahead
\* and a next_token runs a new attempt from where the look_ahead stopped.
C6_LookAheadThenNextToken ==
    \A i \in 1..Len(hist) :
        /\ hist[i].op = "look_ahead" => hist[i].post.la = <<hist[i].res>>
        /\ hist[i].op = "next_token" => hist[i].post.la = <<>>
        /\ (hist[i].op = "look_ahead" /\ i + 1 \in Reads) =>
              /\ hist[i + 1].res = hist[i].res
              /\ SlotEmptied(hist[i + 1].post) = SlotEmptied(hist[i].post)
        /\ (hist[i].op = "look_ahead" /\ i + 1 \in Reads /\ i + 2 \in Reads
              /\ hist[i + 1].op = "next_token") =>
              /\ i + 2 \in Attempts
              /\ hist[i + 2].pre = SlotEmptied(hist[i].post)

\* Two look_ahead calls and a next_token returned the same token, and the
\* call after them returned another token.
C6_Witness ==
    /\ Len(hist) >= 4
    /\ hist[1].op = "look_ahead"
    /\ hist[2].op = "look_ahead"
    /\ hist[3].op = "next_token"
    /\ hist[4].op = "next_token"
    /\ hist[1].res.kind = "token"
    /\ hist[3].res = hist[1].res
    /\ hist[4].res.kind = "token"
    /\ hist[4].res # hist[1].res

\* Token t equals token u in value, type, len, line and column.
EqualToken(t, u) ==
    /\ t.value = u.value
    /\ t.token_type = u.token_type
    /\ t.len = u.len
    /\ t.line = u.line
    /\ t.column = u.column

\* Call i is a next_token that ran an attempt and returned a token.
Emitted(i) ==
    /\ i \in Attempts
    /\ hist[i].op = "next_token"
    /\ hist[i].res.kind = "token"

\* Call i is a successful rewind of the token call j returned.
Rewound(i, j) ==
    /\ i \in 1..Len(hist)
    /\ hist[i].op = "rewind"
    /\ hist[i].arg = hist[j].res.token
    /\ hist[i].res.kind = "ok"

\* Call i is a next_token that returned the token call j returned.
ReadAgain(i, j) ==
    /\ hist[i].res.kind = "token"
    /\ EqualToken(hist[i].res.token[1], hist[j].res.token[1])

\* C7: a next_token that follows the successful rewind of the token the
\* previous next_token returned returns an equal token, and two tokens
\* rewound in reverse order are read again in the original order.
C7_RewindThenNextTokenReturnsToken ==
    \A i \in 1..Len(hist) :
        /\ (Emitted(i) /\ Rewound(i + 1, i) /\ i + 2 \in Reads
              /\ hist[i + 2].op = "next_token") => ReadAgain(i + 2, i)
        /\ (Emitted(i) /\ Emitted(i + 1) /\ Rewound(i + 2, i + 1) /\ Rewound(i + 3, i)
              /\ i + 5 \in Reads /\ hist[i + 4].op = "next_token"
              /\ hist[i + 5].op = "next_token") =>
              (ReadAgain(i + 4, i) /\ ReadAgain(i + 5, i + 1))

\* C8: rewind(t) sets line and column to those of t; when t.value fits in
\* the free space of the replay buffer it puts t.value in front of the
\* buffer and returns the free capacity left, otherwise it returns
\* BufferFullError.
C8_RewindPrependsTokenValue ==
    \A i \in 1..Len(hist) : hist[i].op = "rewind" =>
        /\ hist[i].post.line = hist[i].arg[1].line
        /\ hist[i].post.column = hist[i].arg[1].column
        /\ IF Len(hist[i].arg[1].value) <= CAP - Len(hist[i].pre.cache)
           THEN /\ hist[i].res.kind = "ok"
                /\ hist[i].res.msg = <<CAP - Len(hist[i].post.cache)>>
                /\ hist[i].post.cache = hist[i].arg[1].value \o hist[i].pre.cache
           ELSE hist[i].res.kind = BufferFullError

\* The characters of sequence s.
Chars(s) == {s[k] : k \in 1..Len(s)}

\* Calls i+1..j are all next_token or look_ahead calls.
OnlyReads(i, j) == \A k \in (i + 1)..j : k \in Reads

\* C9: set_input(text) leaves line 1, column 1, an empty replay buffer, an
\* empty lookahead slot, the new input at its start and the same matcher
\* list; the first token read after it is a prefix of text at line 1,
\* column 1, and the tokens read after it hold characters of text only.
C9_SetInputStartsAfresh ==
    \A i \in 1..Len(hist) : hist[i].op = "set_input" =>
        /\ hist[i].post = [line |-> 1, column |-> 1, cache |-> <<>>, index |-> 0,
                           text |-> hist[i].arg, la |-> <<>>,
                           list |-> hist[i].pre.list]
        /\ \A j \in (i + 1)..Len(hist) :
              (OnlyReads(i, j) /\ hist[j].res.kind = "token") =>
                  /\ Chars(hist[j].res.token[1].value) \subseteq Chars(hist[i].arg)
                  /\ hist[j].res.token[1].value # <<>>
                  /\ j = i + 1 =>
                        /\ IsPrefix(hist[j].res.token[1].value, hist[i].arg)
                        /\ hist[j].res.token[1].line = 1
                        /\ hist[j].res.token[1].column = 1

\* set_input was called with a cached look_ahead result and a non-empty
\* replay buffer, and two tokens were read after it.
C9_Witness ==
    /\ Len(hist) >= 4
    /\ hist[2].op = "set_input"
    /\ hist[2].pre.la # <<>>
    /\ hist[2].pre.cache # <<>>
    /\ hist[3].op = "next_token"
    /\ hist[3].res.kind = "token"
    /\ hist[4].op = "next_token"
    /\ hist[4].res.kind = "token"

\* The attempt that produced what call i returned: call i, or the look_ahead
\* that filled the lookahead slot call i was served from.
Origin(i) == CHOOSE j \in Attempts : j <= i /\ \A k \in Attempts : k <= i => k <= j

\* C10: every token next_token returns carries the line and column the
\* engine had when the attempt that produced the token started.
C10_TokenCarriesStartPosition ==
    \A i \in 1..Len(hist) :
        (hist[i].op = "next_token" /\ hist[i].res.kind = "token") =>
            /\ hist[i].res.token[1].line = hist[Origin(i)].pre.line
            /\ hist[i].res.token[1].column = hist[Origin(i)].pre.column

\* next_token returned a whitespace token that starts after column 1 and
\* whose matcher reported another line or column.
C10_Witness ==
    /\ LastCommitted # <<>>
    /\ hist[Len(hist)].op = "next_token"
    /\ LastCommitted[1].token_type = TOKEN_TYPE_WHITESPACE
    /\ LastCommitted[1].column > 1
    /\ \E r \in reported :
          /\ SameToken(LastCommitted[1], r.token)
          /\ r.token.line > 0
          /\ r.token.column # LastCommitted[1].column

\* Every call so far was a next_token that returned a token.
AllTokens ==
    /\ hist # <<>>
    /\ \A i \in 1..Len(hist) : hist[i].op = "next_token" /\ hist[i].res.kind = "token"

\* One step of the reference walk over character ch: pos is the line, the
\* column and whether the character before was a carriage return.
RefStep(pos, ch) ==
    CASE ch = "LF" -> [line |-> IF pos.cr THEN pos.line ELSE pos.line + 1,
                       column |-> 1, cr |-> FALSE]
      [] ch = "CR" -> [line |-> pos.line + 1, column |-> 1, cr |-> TRUE]
      [] OTHER -> [line |-> pos.line, column |-> pos.column + 1, cr |-> FALSE]

RECURSIVE RefWalk(_, _, _)
\* The reference walk over s[k..] from pos.
RefWalk(s, k, pos) ==
    IF k > Len(s) THEN pos
    ELSE CHOOSE out \in {RefWalk(t, n, q) : t \in {s}, n \in {k + 1},
                                            q \in {RefStep(pos, s[k])}} : TRUE

\* The line and column of the reference walk from (1,1) over s.
RefPosition(s) ==
    CHOOSE out \in {<<q.line, q.column>> :
                       q \in {RefWalk(s, 1, [line |-> 1, column |-> 1, cr |-> FALSE])}} : TRUE

\* C11: after next_token calls on a fresh engine that all returned a token,
\* line and column are those of the reference walk over the consumed
\* characters, in which LF, CR and CR LF are each one line break.
C11_PositionIsReferenceWalk ==
    (pc = "idle" /\ AllTokens) => <<line, column>> = RefPosition(Consumed)

\* The attempts that returned a whitespace token.
WhitespaceCalls ==
    {i \in Attempts : /\ hist[i].res.kind = "token"
                      /\ hist[i].res.token[1].token_type = TOKEN_TYPE_WHITESPACE}

\* The positions of character ch in s.
Places(s, ch) == {k \in 1..Len(s) : s[k] = ch}

\* The number of characters of s after the last ch of s (s has one).
AfterLast(s, ch) == Len(s) - (CHOOSE k \in Places(s, ch) : \A n \in Places(s, ch) : n <= k)

\* C12: a whitespace token advances the line by the number of its LF
\* characters (one per LF and per CR LF pair); when it has an LF, the column
\* after it is 1 plus the number of characters that follow its last LF.
C12_LineFeedsAdvanceLine ==
    \A i \in WhitespaceCalls :
        /\ hist[i].post.line =
               hist[i].pre.line + Cardinality(Places(hist[i].res.token[1].value, "LF"))
        /\ Places(hist[i].res.token[1].value, "LF") # {} =>
               hist[i].post.column = 1 + AfterLast(hist[i].res.token[1].value, "LF")

TokenCalls ==
    {i \in 1..Len(hist) : hist[i].op = "next_token" /\ hist[i].res.kind = "token"}

\* C14: the len of every token returned by next_token is the number of
\* characters of its value.
C14_LenIsCharacterCount ==
    \A i \in TokenCalls :
        hist[i].res.token[1].len = Len(hist[i].res.token[1].value)

\* C15: every token returned by next_token has line >= 1 and column >= 1,
\* and the engine's line and column are never below 1.
C15_PositionsStartAtOne ==
    /\ line >= 1
    /\ column >= 1
    /\ \A i \in TokenCalls :
           /\ hist[i].res.token[1].line >= 1
           /\ hist[i].res.token[1].column >= 1

\* C16: an attempt returns end-of-input only when it consumed no character
\* of the stream; an attempt that consumed characters and found no token
\* returns TokenNotFound.
C16_EndOfInputConsumesNothing ==
    \A i \in Attempts :
        hist[i].res.kind = "eof" => StreamPos(hist[i].post) = StreamPos(hist[i].pre)

NotFoundCalls ==
    {i \in Attempts : hist[i].op = "next_token" /\ hist[i].res.kind = "TokenNotFound"}

\* The characters of the stream that snapshot s has still to read: the
\* replay buffer, then the rest of the input.
Rest(s) == s.cache \o SliceFrom(s.text, s.index)

IsSuffix(s, t) == Len(s) <= Len(t) /\ SubSeq(t, Len(t) - Len(s) + 1, Len(t)) = s

\* C17: a next_token that returns TokenNotFound leaves line and column as
\* they were, has consumed characters of the stream and put none back in the
\* replay buffer, and a token returned by the call that follows starts at the
\* character after the consumed ones.
C17_TokenNotFoundLeavesEngineUsable ==
    \A i \in NotFoundCalls :
        /\ hist[i].post.line = hist[i].pre.line
        /\ hist[i].post.column = hist[i].pre.column
        /\ StreamPos(hist[i].post) > StreamPos(hist[i].pre)
        /\ IsSuffix(hist[i].post.cache, hist[i].pre.cache)
        /\ (i < Len(hist) /\ hist[i + 1].op = "next_token"
               /\ hist[i + 1].res.kind = "token") =>
              /\ hist[i + 1].pre = hist[i].post
              /\ IsPrefix(hist[i + 1].res.token[1].value, Rest(hist[i].post))
              /\ hist[i + 1].res.token[1].line = hist[i].pre.line
              /\ hist[i + 1].res.token[1].column = hist[i].pre.column

\* A next_token returned TokenNotFound after an earlier token, and the call
\* after it returned a token.
C17_Witness ==
    \E i \in NotFoundCalls :
        /\ i > 1
        /\ i < Len(hist)
        /\ hist[i + 1].op = "next_token"
        /\ hist[i + 1].res.kind = "token"
        /\ hist[i].pre.column > 1

\* No call from i + 1 to j - 1 is a rewind or a set_input.
NoReset(i, j) ==
    \A k \in (i + 1)..(j - 1) : hist[k].op \notin {"rewind", "set_input"}

\* C18: after a next_token that returned end-of-input, every next_token and
\* look_ahead returns end-of-input until a rewind or a set_input; an
\* attempt on an exhausted stream returns end-of-input, never an error.
C18_EndOfInputIsIdempotent ==
    /\ \A i \in 1..Len(hist) : \A j \in (i + 1)..Len(hist) :
           (/\ hist[i].op = "next_token"
            /\ hist[i].res.kind = "eof"
            /\ hist[j].op \in {"next_token", "look_ahead"}
            /\ NoReset(i, j)) => hist[j].res.kind = "eof"
    /\ \A i \in Attempts : Rest(hist[i].pre) = <<>> => hist[i].res.kind = "eof"

\* The accumulator followed by the characters the engine has still to read.
Held == value \o BufContents(cache) \o SliceFrom(input.chars, input.index)

\* The token the call that has just returned handed out.
Handed == hist[Len(hist)].res.token[1]

\* C19: an iteration that has to push a character on a full accumulator
\* panics; an iteration that goes on keeps every character (accumulator
\* and rest of the stream are together what they were) within CAP; a
\* returned token's value is the front of the accumulator, not cut by CAP,
\* and the characters accumulated beyond its len are all in the replay
\* buffer, before what the buffer held.
C19_OverflowPanics ==
    [][pc = "fetch" =>
          /\ (Len(value) >= CAP /\ Held # value) => pc' = "panicked"
          /\ pc' = "fetch" => (Held' = Held /\ Len(value') <= CAP)
          /\ (pc' = "idle" /\ hist'[Len(hist')].res.kind = "token") =>
                /\ Len(value') <= CAP
                /\ IsPrefix(Handed'.value, value')
                /\ Len(value') > Handed'.len =>
                       BufContents(cache') = SliceFrom(value', Handed'.len) \o behind']_vars

\* The engine panicked on a full accumulator, in an attempt that started
\* with characters in the replay buffer.
C19_Witness ==
    /\ pc = "panicked"
    /\ Len(value) = CAP
    /\ pre.cache # <<>>

\* The candidate the iteration that starts here leaves, had the accumulator
\* room for the character it pulls.
Pending == BestCandidate(found_token, Fed(Pulled).found_token)

\* The iteration that starts here ends the attempt with a token of at most
\* CAP characters, had the accumulator room for the character it pulls.
EndsWithinCap ==
    /\ ~Fed(Pulled).running
    /\ Pending # <<>>
    /\ Len(Pending[1].value) <= CAP

\* C20: on an engine on which only next_token is called, get_token does not
\* panic in an iteration that would end the attempt with a token of at most
\* CAP characters: it panics only for a token longer than CAP.
C20_PanicOnlyBeyondCap ==
    [][(pc = "fetch" /\ pc' = "panicked") => ~EndsWithinCap]_vars

\* The calls that returned an error other than TokenNotFound.
ErrorCalls == {i \in Reads : hist[i].res.kind = "Error"}

\* C21: a next_token or look_ahead returns Err(Error(m)) only with the
\* message m of an error the input returned, at the place of the input where
\* it returned it, and leaves line and column as they were; and once the
\* input has returned an error, a call has returned it (the attempt ended
\* there: no token came out of it).
C21_InputErrorIsReturned ==
    /\ \A i \in ErrorCalls :
           /\ input.fault # <<>>
           /\ input.fault[1].fired
           /\ hist[i].res.msg = <<input.fault[1].msg>>
           /\ hist[i].res.token = <<>>
           /\ hist[i].post.index = input.fault[1].at
           /\ hist[i].post.line = hist[i].pre.line
           /\ hist[i].post.column = hist[i].pre.column
    /\ (input.fault # <<>> /\ input.fault[1].fired) => ErrorCalls # {}
    /\ (input.fault # <<>> /\ input.index > input.fault[1].at) => input.fault[1].fired

\* An attempt that had accumulated a character returned the error of the
\* input, and the call after it returned a token.
C21_Witness ==
    \E i \in ErrorCalls :
        /\ i < Len(hist)
        /\ hist[i].pre.la = <<>>
        /\ hist[i].post.index > hist[i].pre.index
        /\ hist[i + 1].op = "next_token"
        /\ hist[i + 1].pre.la = <<>>
        /\ hist[i + 1].res.kind = "token"

\* ------------------------------------------------------------------------
\* rolling_char_buffer.rs explored alone, against a bounded double-ended queue
\* ------------------------------------------------------------------------

\* The double-ended queue: a sequence of at most CAP characters, front
\* first. Its operations return [deque, ok, val] as the buffer's do.
DequePush(d, c) ==
    IF Len(d) >= CAP THEN [deque |-> d, ok |-> FALSE, val |-> BufferFullError]
    ELSE [deque |-> Append(d, c), ok |-> TRUE, val |-> "unit"]

DequePrefix(d, c) ==
    IF Len(d) >= CAP THEN [deque |-> d, ok |-> FALSE, val |-> BufferFullError]
    ELSE [deque |-> <<c>> \o d, ok |-> TRUE, val |-> "unit"]

DequeRead(d) ==
    IF d = <<>> THEN [deque |-> d, ok |-> FALSE, val |-> BufferEmptyError]
    ELSE [deque |-> Tail(d), ok |-> TRUE, val |-> Head(d)]

DequePop(d) ==
    IF d = <<>> THEN [deque |-> d, ok |-> FALSE, val |-> BufferEmptyError]
    ELSE [deque |-> SubSeq(d, 1, Len(d) - 1), ok |-> TRUE, val |-> d[Len(d)]]

DequeClear(d) == [deque |-> <<>>, ok |-> TRUE, val |-> "unit"]

DequeExtend(d, cs) ==
    IF Len(d) + Len(cs) > CAP THEN [deque |-> d, ok |-> FALSE, val |-> BufferFullError]
    ELSE [deque |-> d \o cs, ok |-> TRUE, val |-> CAP - (Len(d) + Len(cs))]

DequePrepend(d, cs) ==
    IF Len(d) + Len(cs) > CAP THEN [deque |-> d, ok |-> FALSE, val |-> BufferFullError]
    ELSE [deque |-> cs \o d, ok |-> TRUE, val |-> CAP - (Len(d) + Len(cs))]

\* The characters pushed and prefixed.
BufChars == {"a", "b"}

\* The double-ended queue after the calls made so far.
Deque == IF hist = <<>> THEN <<>> ELSE hist[1].post.deque

\* One call on the buffer: r is what the buffer returns, a what the
\* double-ended queue returns. hist holds the last call only.
BufferCall(op, arg, r, a) ==
    /\ pc = "buffer"
    /\ cache' = r.buf
    /\ hist' = <<[op |-> op, arg |-> arg,
                  res |-> [ok |-> r.ok, val |-> r.val],
                  model |-> [ok |-> a.ok, val |-> a.val],
                  pre |-> [buf |-> cache, deque |-> Deque],
                  post |-> [buf |-> r.buf, deque |-> a.deque]]>>
    /\ UNCHANGED <<matchers, input, value, lexxor_result, found_token, line, column,
                   precedence, pc, caller, pre, reported, iter, overread, behind>>

Push == \E c \in BufChars : BufferCall("push", <<c>>, BufPush(cache, c), DequePush(Deque, c))

Prefix ==
    \E c \in BufChars : BufferCall("prefix", <<c>>, BufPrefix(cache, c), DequePrefix(Deque, c))

Read == BufferCall("read", <<>>, BufRead(cache), DequeRead(Deque))

Pop == BufferCall("pop", <<>>, BufPop(cache), DequePop(Deque))

Clear ==
    BufferCall("clear", <<>>, [buf |-> BufClear(cache), ok |-> TRUE, val |-> "unit"],
               DequeClear(Deque))

Extend ==
    \E cs \in Texts(BufChars, MaxSeqLen) :
        BufferCall("extend", cs, BufExtend(cache, cs), DequeExtend(Deque, cs))

Prepend ==
    \E cs \in Texts(BufChars, MaxSeqLen) :
        BufferCall("prepend", cs, BufPrepend(cache, cs), DequePrepend(Deque, cs))

NextBuf == Push \/ Prefix \/ Read \/ Pop \/ Clear \/ Extend \/ Prepend

\* RollingCharBuffer::new; the engine's variables hold what Lexxor::new gives
\* them and are left alone.
InitBuf ==
    /\ cache = NewBuffer
    /\ hist = <<>>
    /\ pc = "buffer"
    /\ matchers = <<>>
    /\ input = InputString(<<>>)
    /\ value = <<>>
    /\ lexxor_result = <<>>
    /\ found_token = <<>>
    /\ line = 1
    /\ column = 1
    /\ precedence = 0
    /\ caller = "none"
    /\ pre = Snapshot(1, 1, NewBuffer, input, <<>>, matchers)
    /\ reported = {}
    /\ iter = 0
    /\ overread = <<>>
    /\ behind = <<>>

SpecBuf == InitBuf /\ [][NextBuf]_vars

\* The last call is one of ops.
Last(ops) == hist # <<>> /\ hist[1].op \in ops

\* C22: after every push, pop, prefix, read and clear, the call returned
\* what the double-ended queue bounded by CAP returns and the buffer holds,
\* in read order, what the queue holds; the buffer always holds what the
\* queue holds.
C22_BufferIsBoundedDeque ==
    /\ pc = "buffer" => BufContents(cache) = Deque
    /\ Last({"push", "pop", "prefix", "read", "clear"}) =>
          /\ hist[1].res = hist[1].model
          /\ BufContents(hist[1].post.buf) = hist[1].post.deque

\* A read took the front of a buffer of three characters whose indexes had
\* wrapped around the end of the array.
C22_Witness ==
    /\ Last({"read"})
    /\ hist[1].pre.buf.end < hist[1].pre.buf.start
    /\ Len(hist[1].pre.deque) = 3
    /\ hist[1].res.val = "a"
    /\ hist[1].post.deque = <<"b", "a">>

\* C23: extend and prepend of a sequence, the empty one included, return Ok
\* exactly when the characters held and those of the sequence are together
\* at most CAP; Ok carries the free capacity left; a failing call returns
\* BufferFullError and leaves start, end, the full flag and the array as
\* they were.
C23_ExtendPrependFitOrFail ==
    Last({"extend", "prepend"}) =>
        /\ hist[1].res.ok <=> Len(hist[1].pre.deque) + Len(hist[1].arg) <= CAP
        /\ hist[1].res.ok => hist[1].res.val = CAP - BufLen(hist[1].post.buf)
        /\ ~hist[1].res.ok =>
              /\ hist[1].res.val = BufferFullError
              /\ hist[1].post.buf = hist[1].pre.buf

\* C24: after a prepend that returned Ok, the buffer holds, in read order,
\* the sequence in its order and then what it held before, in its order.
C24_PrependKeepsOrder ==
    (Last({"prepend"}) /\ hist[1].res.ok) =>
        BufContents(hist[1].post.buf) = hist[1].arg \o BufContents(hist[1].pre.buf)

\* A prepend of two different characters on a buffer that held one wrapped
\* around the start of the array.
C24_Witness ==
    /\ Last({"prepend"})
    /\ hist[1].res.ok
    /\ hist[1].arg = <<"a", "b">>
    /\ Len(hist[1].pre.deque) = 1
    /\ hist[1].pre.buf.start = 1
    /\ hist[1].post.buf.start = CAP - 1

\* C25: in every buffer state len() is between 0 and CAP, start and end are
\* indexes below CAP, the full flag implies start = end, len() is CAP when
\* full and (end - start) mod CAP otherwise, is_empty() holds exactly when
\* start = end and the buffer is not full, is_full() exactly when len() is
\* CAP; and len() is the number of characters the queue holds.
C25_BufferStateIsConsistent ==
    pc = "buffer" =>
        /\ BufLen(cache) \in 0..CAP
        /\ cache.start \in 0..(CAP - 1)
        /\ cache.end \in 0..(CAP - 1)
        /\ cache.full => cache.start = cache.end
        /\ BufLen(cache) = IF cache.full THEN CAP
                           ELSE (cache.end - cache.start + CAP) % CAP
        /\ BufIsEmpty(cache) <=> (cache.start = cache.end /\ ~cache.full)
        /\ BufIsFull(cache) <=> BufLen(cache) = CAP
        /\ BufLen(cache) = Len(Deque)
        /\ BufIsEmpty(cache) <=> Deque = <<>>

\* A pop took a character from a full buffer whose start is not 0.
C25_Witness ==
    /\ Last({"pop"})
    /\ hist[1].pre.buf.full
    /\ hist[1].pre.buf.start \in 1..(CAP - 2)
    /\ ~cache.full
    /\ BufLen(cache) = CAP - 1

\* C26: push and prefix return BufferFullError exactly when the buffer holds
\* CAP characters, read and pop return BufferEmptyError exactly when it
\* holds none; the two errors differ; a call that returns an error leaves
\* the buffer as it was.
C26_FullAndEmptyErrors ==
    /\ BufferFullError # BufferEmptyError
    /\ Last({"push", "prefix"}) =>
          /\ ~hist[1].res.ok <=> Len(hist[1].pre.deque) = CAP
          /\ ~hist[1].res.ok => hist[1].res.val = BufferFullError
    /\ Last({"read", "pop"}) =>
          /\ ~hist[1].res.ok <=> hist[1].pre.deque = <<>>
          /\ ~hist[1].res.ok => hist[1].res.val = BufferEmptyError
    /\ (Last({"push", "prefix", "read", "pop"}) /\ ~hist[1].res.ok) =>
          hist[1].post.buf = hist[1].pre.buf

\* A prefix was refused on a full buffer whose indexes are not where new()
\* put them.
C26_Witness ==
    /\ Last({"prefix"})
    /\ ~hist[1].res.ok
    /\ hist[1].pre.buf.start # CAP - 1

\* The literals of the only matcher of the list of snapshot s that are a
\* prefix of the characters s has still to read.
LiteralPrefixes(s) ==
    {s.list[1].targets[k] : k \in {n \in 1..Len(s.list[1].targets) :
                                     IsPrefix(s.list[1].targets[n], Rest(s))}}

Longest(S) == CHOOSE t \in S : \A u \in S : Len(u) <= Len(t)

\* The attempts of an engine whose only matcher is an ExactMatcher.
ExactCalls ==
    {i \in Attempts : Len(hist[i].pre.list) = 1 /\ hist[i].pre.list[1].kind = "exact"}

\* C27: with an ExactMatcher alone, an attempt returns a token exactly when
\* a literal of the list is a prefix of the characters to read, whatever
\* follows it; the token's value is the longest such literal, and the
\* characters read beyond it are replayed: the next attempt starts right
\* after the literal.
C27_ExactLongestLiteral ==
    \A i \in ExactCalls :
        IF LiteralPrefixes(hist[i].pre) = {}
        THEN hist[i].res.kind # "token"
        ELSE /\ hist[i].res.kind = "token"
             /\ hist[i].res.token[1].value = Longest(LiteralPrefixes(hist[i].pre))
             /\ hist[i].res.token[1].token_type = TOKEN_TYPE_EXACT
             /\ Rest(hist[i].post) =
                    SliceFrom(Rest(hist[i].pre), Len(hist[i].res.token[1].value))

\* The literals an ExactMatcher alone can return on snapshot s: those that
\* are a prefix of the characters to read, the empty literal only when
\* there is no character to read.
Matchable(s) == {t \in LiteralPrefixes(s) : t # <<>> \/ Rest(s) = <<>>}

\* C27 amended: with an ExactMatcher alone, an attempt returns a token
\* exactly when a non-empty literal of the list is a prefix of the
\* characters to read, whatever follows it, or the list has the empty
\* literal and there is no character to read; the token's value is the
\* longest such literal and the next attempt starts right after it.
C27_ExactLongestNonEmptyLiteral ==
    \A i \in ExactCalls :
        IF Matchable(hist[i].pre) = {}
        THEN hist[i].res.kind # "token"
        ELSE /\ hist[i].res.kind = "token"
             /\ hist[i].res.token[1].value = Longest(Matchable(hist[i].pre))
             /\ hist[i].res.token[1].token_type = TOKEN_TYPE_EXACT
             /\ Rest(hist[i].post) =
                    SliceFrom(Rest(hist[i].pre), Len(hist[i].res.token[1].value))

\* After a token, an ExactMatcher alone returned the literal "a" although
\* it had read two characters more, the first of them alphanumeric; they
\* are in the replay buffer.
C27_Witness ==
    \E i \in ExactCalls :
        /\ i > 1
        /\ hist[i].res.kind = "token"
        /\ hist[i].res.token[1].value = <<"a">>
        /\ hist[i].post.cache = <<"b", "b">>

\* The attempts of an engine whose only matcher is a KeywordMatcher.
KeywordCalls ==
    {i \in Attempts : Len(hist[i].pre.list) = 1 /\ hist[i].pre.list[1].kind = "keyword"}

\* Literal t, at the front of the characters s has still to read, is followed
\* by end-of-input or by a character that is not alphanumeric.
EndsAtBoundary(t, s) ==
    /\ IsPrefix(t, Rest(s))
    /\ Len(Rest(s)) > Len(t) => ~IsAlphanumeric(Rest(s)[Len(t) + 1])

\* C28: with a KeywordMatcher alone, the value of a returned token is a
\* listed keyword at the front of the characters to read that is followed
\* by end-of-input or by a character that is not alphanumeric: a keyword
\* followed by an alphanumeric character is not returned.
C28_KeywordEndsAtBoundary ==
    \A i \in KeywordCalls :
        hist[i].res.kind = "token" =>
            /\ \E k \in 1..Len(hist[i].pre.list[1].targets) :
                   hist[i].pre.list[1].targets[k] = hist[i].res.token[1].value
            /\ EndsAtBoundary(hist[i].res.token[1].value, hist[i].pre)

\* A KeywordMatcher alone found no token on "ab1", where the keywords "a"
\* and "ab" are followed by alphanumeric characters, and the next attempt
\* returned the keyword "a", followed by a space.
C28_Witness ==
    \E i \in KeywordCalls :
        /\ IsPrefix(<<"a", "b", "1">>, Rest(hist[i].pre))
        /\ hist[i].res.kind = "TokenNotFound"
        /\ i < Len(hist)
        /\ hist[i + 1].res.kind = "token"
        /\ hist[i + 1].res.token[1].value = <<"a">>
        /\ IsPrefix(<<"a", "SP">>, Rest(hist[i + 1].pre))

\* The calls that returned a keyword token.
KeywordTokens ==
    {i \in Attempts : /\ hist[i].res.kind = "token"
                      /\ hist[i].res.token[1].token_type = TOKEN_TYPE_KEYWORD}

\* C29: on an engine on which only next_token is called, a keyword token
\* starts at the first character of the input or after a character that is
\* not alphanumeric.
C29_KeywordNotAfterAlphanumeric ==
    \A i \in KeywordTokens :
        StreamPos(hist[i].pre) > 0 =>
            ~IsAlphanumeric(hist[i].pre.text[StreamPos(hist[i].pre)])

\* Every character of s from position a to position b is numeric.
Digits(s, a, b) == \A k \in a..b : IsNumeric(s[k])

\* The lengths of the prefixes of s made of one or more digits, a dot and
\* one or more digits.
FloatPrefixes(s) ==
    {n \in 3..Len(s) : \E d \in 1..(n - 2) :
        /\ Digits(s, 1, d)
        /\ s[d + 1] = "."
        /\ Digits(s, d + 2, n)}

Max(S) == CHOOSE n \in S : \A k \in S : k <= n

IsSymbol(c) == ~IsAlphanumeric(c) /\ ~IsWhitespace(c)

\* The longest prefix of s whose characters are all numeric (numeric TRUE)
\* or all symbols.
RunOf(s, numeric) ==
    SliceTo(s, Max({n \in 0..Len(s) :
                      \A k \in 1..n : IF numeric THEN IsNumeric(s[k]) ELSE IsSymbol(s[k])}))

\* The attempts of an engine with the matchers of the given kinds.
CallsOf(kinds) ==
    {i \in Attempts : [k \in 1..Len(hist[i].pre.list) |-> hist[i].pre.list[k].kind] = kinds}

\* C30: a FloatMatcher alone returns a token exactly when the characters to
\* read start with digits, a dot and digits, and its value is the longest such
\* prefix; with a SymbolMatcher and an IntegerMatcher beside it, characters
\* that start with a dot, or with digits and no dot and digit after them,
\* come out as a symbol token or an integer token, the dot after the digits
\* left for the next attempt.
C30_FloatNeedsDigitsAroundDot ==
    /\ \A i \in CallsOf(<<"float">>) :
           IF FloatPrefixes(Rest(hist[i].pre)) = {}
           THEN hist[i].res.kind # "token"
           ELSE /\ hist[i].res.kind = "token"
                /\ hist[i].res.token[1].token_type = TOKEN_TYPE_FLOAT
                /\ hist[i].res.token[1].value =
                       SliceTo(Rest(hist[i].pre), Max(FloatPrefixes(Rest(hist[i].pre))))
    /\ \A i \in CallsOf(<<"float", "symbol", "integer">>) :
           Rest(hist[i].pre) # <<>> =>
               /\ hist[i].res.kind = "token"
               /\ hist[i].res.token[1] =
                      [hist[i].res.token[1] EXCEPT
                         !.token_type =
                            IF FloatPrefixes(Rest(hist[i].pre)) # {} THEN TOKEN_TYPE_FLOAT
                            ELSE IF IsNumeric(Rest(hist[i].pre)[1]) THEN TOKEN_TYPE_INTEGER
                            ELSE TOKEN_TYPE_SYMBOL,
                         !.value =
                            IF FloatPrefixes(Rest(hist[i].pre)) # {}
                            THEN SliceTo(Rest(hist[i].pre),
                                         Max(FloatPrefixes(Rest(hist[i].pre))))
                            ELSE RunOf(Rest(hist[i].pre), IsNumeric(Rest(hist[i].pre)[1]))]
               /\ Rest(hist[i].post) =
                      SliceFrom(Rest(hist[i].pre), Len(hist[i].res.token[1].value))

\* On "1.1." the float "1.1" came out although a dot follows it, and on
\* "1." the integer "1" came out and then the symbol ".".
C30_Witness ==
    \/ /\ Len(hist) >= 2
       /\ hist[1].pre.text = <<"1", ".", "1", ".">>
       /\ hist[1].res.kind = "token"
       /\ hist[1].res.token[1].value = <<"1", ".", "1">>
       /\ hist[2].res.kind = "token"
       /\ hist[2].res.token[1].token_type = TOKEN_TYPE_SYMBOL
    \/ /\ Len(hist) >= 2
       /\ hist[1].pre.text = <<"1", ".">>
       /\ hist[1].res.kind = "token"
       /\ hist[1].res.token[1].token_type = TOKEN_TYPE_INTEGER
       /\ hist[2].res.kind = "token"
       /\ hist[2].res.token[1].token_type = TOKEN_TYPE_SYMBOL

\* The matchers that match a run of characters of one class.
RunKinds == {"word", "integer", "symbol", "whitespace"}

\* Character c is in the class of the matchers of the given kind.
InClass(kind, c) ==
    CASE kind = "word" -> IsAlphabetic(c)
      [] kind = "integer" -> IsNumeric(c)
      [] kind = "symbol" -> ~IsWhitespace(c) /\ ~IsAlphanumeric(c)
      [] kind = "whitespace" -> IsWhitespace(c)

\* The longest prefix of s whose characters are all in the class of kind.
ClassRun(kind, s) ==
    SliceTo(s, Max({n \in 0..Len(s) : \A k \in 1..n : InClass(kind, s[k])}))

\* The last call of the history is an attempt that returned a token,
\* end-of-input or TokenNotFound, and no call was made since.
AttemptDone ==
    /\ pc = "idle"
    /\ hist # <<>>
    /\ Len(hist) \in Attempts
    /\ hist[Len(hist)].res.kind # "Error"

\* The Matched outcomes matcher i reported in the last attempt.
ReportedBy(i) == {r \in reported : r.idx = i}

C33_RewindBeforeCachedLookAhead ==
    \A i \in 1..Len(hist) : \A j \in 1..(i - 1) :
        (Emitted(j) /\ Rewound(i, j) /\ hist[i].pre.la # <<>>
           /\ i + 1 \in Reads /\ hist[i + 1].op = "next_token") =>
            ReadAgain(i + 1, j)

\* The result of the loop of get_token on a stream of characters with no
\* replay buffer: e holds the matchers, the characters to come, the
\* accumulator, the best candidate, the local precedence and the position.
RECURSIVE FreshLoop(_)

\* The end of one iteration of that loop, c being the character pulled, fed
\* what the loop over the matchers left and best the best candidate.
FreshDecide(e, c, fed, best) ==
    IF ~fed.running
    THEN IF best # <<>> THEN OkToken(Advance(e.line, e.column, best[1]).token)
         ELSE IF c = <<>> THEN OkNone
         ELSE TokenNotFound(e.line, e.column, c)
    ELSE IF c = <<>> THEN OkNone
    ELSE FreshLoop([e EXCEPT !.matchers = fed.ms, !.stream = Tail(e.stream),
                             !.value = e.value \o c, !.found_token = best,
                             !.precedence = fed.precedence])

FreshLoop(e) ==
    CHOOSE out \in
      {IF c # <<>> /\ Len(e.value) >= CAP
       THEN [kind |-> "panic", token |-> <<>>, msg |-> <<>>]
       ELSE CHOOSE res \in
              {FreshDecide(e, c, fed, BestCandidate(e.found_token, fed.found_token)) :
               fed \in {FeedMatchers([ms |-> e.matchers, found_token |-> <<>>,
                                      precedence |-> e.precedence, running |-> FALSE],
                                     1, c, e.value \o c)}} : TRUE :
       c \in {IF e.stream = <<>> THEN <<>> ELSE <<e.stream[1]>>}} : TRUE

\* The result of the first attempt of an engine made of new matchers of the
\* list of snapshot s, given the characters snapshot s has left to read and
\* its line and column.
FreshResult(s) ==
    FreshLoop([matchers |-> [k \in 1..Len(s.list) |->
                                Reset(NewMatcher(s.list[k].kind, s.list[k].token_type,
                                                 s.list[k].precedence,
                                                 s.list[k].targets))],
               stream |-> Rest(s), value |-> <<>>, found_token |-> <<>>,
               precedence |-> 0, line |-> s.line, column |-> s.column])

\* C34: the result of an attempt is the result a new engine with the same
\* matcher list gives on the characters left to read (the replay buffer,
\* then the input) at the same line and column, whatever calls came before;
\* an attempt that ends in the fatal overflow does so on the new engine too.
C34_ResultDependsOnStreamAndPosition ==
    /\ AttemptDone => hist[Len(hist)].res = FreshResult(hist[Len(hist)].pre)
    /\ pc = "panicked" => FreshResult(pre).kind = "panic"

\* An attempt that followed a look_ahead and a successful rewind read its
\* first character from the replay buffer and returned a token.
C34_Witness ==
    /\ AttemptDone
    /\ Len(hist) >= 3
    /\ hist[Len(hist)].res.kind = "token"
    /\ hist[Len(hist)].pre.cache # <<>>
    /\ \E i, j \in 1..(Len(hist) - 1) :
          /\ hist[i].op = "look_ahead"
          /\ hist[j].op = "rewind"
          /\ hist[j].res.kind = "ok"

\* C35: a rewind that returns BufferFullError leaves line, column, the
\* replay buffer and the lookahead slot as they were.
C35_FailedRewindChangesNothing ==
    \A i \in 1..Len(hist) :
        (hist[i].op = "rewind" /\ hist[i].res.kind = BufferFullError) =>
            hist[i].post = hist[i].pre

\* The iteration that starts here commits a token shorter than the
\* accumulator: it pulls a character or end-of-input without an error and
\* without overflowing the accumulator, no matcher is left running and there
\* is a best candidate.
CommitsWithOverRead ==
    /\ pc = "fetch"
    /\ Pulled.err = <<>>
    /\ ~(Pulled.c # <<>> /\ Len(value) >= CAP)
    /\ ~Fed(Pulled).running
    /\ Pending # <<>>
    /\ Len(Pulled.value) > Pending[1].len

\* C36: when an iteration commits a token shorter than the accumulator, the
\* replay buffer takes the over-read characters, also when rewinds had
\* filled it before the attempt: the only panic of get_token is the one of
\* the full accumulator.
C36_ReplayNeverOverflows ==
    /\ CommitsWithOverRead =>
           BufPrepend(Pulled.cache, OverRead(Pulled.value, Pending[1])).ok
    /\ pc = "panicked" => Len(value) = CAP

\* A commit replays an over-read character into a replay buffer that rewinds
\* had filled before the attempt and that still holds characters of theirs.
C36_Witness ==
    /\ CommitsWithOverRead
    /\ Len(pre.cache) = CAP
    /\ ~BufIsEmpty(Pulled.cache)
    /\ \E i \in 1..Len(hist) : hist[i].op = "rewind" /\ hist[i].res.kind = "ok"

\* C37: an attempt in which a matcher reported Matched returns a token,
\* also when the attempt pulled end-of-input and another matcher answered
\* Running() to it.
C37_EndOfInputKeepsBestCandidate ==
    (AttemptDone /\ reported # {}) => hist[Len(hist)].res.kind = "token"

\* C38: an attempt that returns a token or TokenNotFound leaves fewer
\* characters to read than it found, and a returned token is not empty: so
\* that after as many such attempts as the input has characters next_token
\* returns end-of-input.
C38_AttemptsConsumeCharacters ==
    \A i \in Attempts :
        hist[i].res.kind \in {"token", "TokenNotFound"} =>
            /\ Len(Rest(hist[i].post)) < Len(Rest(hist[i].pre))
            /\ hist[i].res.kind = "token" => hist[i].res.token[1].len > 0

\* C39: an iteration of get_token that pulls end-of-input or an error
\* returns; one that goes round again has moved one character from the
\* replay buffer or the input to the accumulator, which holds as many
\* characters as iterations were made and at most CAP; so that every
\* get_token that was called returns or panics, also with a matcher that
\* never stops running.
C39_AttemptTerminates ==
    /\ [][pc = "fetch" =>
             /\ iter = Len(value)
             /\ (Pulled.c = <<>> => pc' = "idle")
             /\ (pc' = "fetch" =>
                    /\ Len(value') = Len(value) + 1
                    /\ Len(Rest(Now')) = Len(Rest(Now)) - 1
                    /\ Len(value') <= CAP)]_vars
    /\ (pc = "fetch") ~> (pc # "fetch")

\* An attempt returned end-of-input after three iterations or more with a
\* matcher still running.
C39_Witness ==
    /\ AttemptDone
    /\ hist[Len(hist)].res.kind = "eof"
    /\ iter >= 3
    /\ \E k \in 1..Len(matchers) : matchers[k].running

====
